---- MODULE Spec2Model ----
(***************************************************************************)
(* Batch orchestration of RJ Auto Metadata: batch_process_files and        *)
(* process_single_file (src/processing/batch_processing.py), the           *)
(* cancellation signal of the provider modules (src/api) and the stop      *)
(* handlers of the application window (src/ui/app.py); and, as functions   *)
(* called on their own, is_retryable, the three file pipelines, the key    *)
(* rotation of the provider modules and the tags they return; the key a    *)
(* submitted job uses, the cool-down of a Gemini key, the rename by title  *)
(* in a shared output directory and the waits between attempts.            *)
(***************************************************************************)
EXTENDS Integers, Sequences, FiniteSets, TLC

(* ---------------------------------------------------------------- bounds *)
\* number of files in the input directory
NumFiles == 2
\* largest num_workers: size of the worker pool, and of one batch
NumWorkers == 2
\* how many input files some other program may delete during a run
MaxVanish == 1
\* how many retry futures may exceed the 120 s result timeout in a run
MaxTimeouts == 2
\* largest attempt number tried on is_retryable
MaxAttemptArg == 6
\* number of API keys handed to batch_process_files
NumKeys == 2
\* threads that select an API key and then call the provider
NumCallers == 2
\* longest sequence of key selections looked at
MaxSelections == 4
\* longest keyword list a provider answers with, and largest keyword_count
MaxRaw == 3
MaxLimit == 3
\* length, in clock readings, of the window after a 429 answer
ParkWindow == 3
\* last second of the clock, and most provider requests, looked at for the
\* spacing of the requests of one key
MaxClock == 8
MaxRequests == 3
\* gemini_api.API_KEY_MIN_INTERVAL, in seconds
API_KEY_MIN_INTERVAL == 3
\* longest delay_seconds between two batches looked at, in seconds
MaxDelay == 2
\* RETRY_DELAY_SECONDS and API_MAX_RETRIES of the OpenAI, Groq, KoboiLLM and
\* Blackbox modules, and the polls per second of a loop around time.sleep(0.1)
RETRY_DELAY_SECONDS == 8
API_MAX_RETRIES == 2
POLLS_PER_SECOND == 10

Files == 1..NumFiles
Keys == 1..NumKeys
Callers == 1..NumCallers

(* ------------------------------------------------------------- statuses *)
\* the statuses batch_process_files counts as processed
ProcessedStatuses ==
    {"processed_exif", "processed_no_exif", "processed_exif_failed",
     "processed_unknown_exif_status"}

\* RETRYABLE_STATUSES: status -> max_attempts
RETRYABLE_STATUSES ==
    [s \in {"failed_api", "failed_copy", "failed_conversion", "failed_frames",
            "failed_worker", "failed_timeout", "failed_exception",
            "debug_artificial_failure"} |->
        CASE s = "failed_api" -> 5
          [] s \in {"failed_copy", "failed_conversion", "failed_frames",
                    "debug_artificial_failure"} -> 3
          [] OTHER -> 2]

NON_RETRYABLE_STATUSES == {"failed_format", "failed_empty", "failed_input_missing"}

\* a mutation of is_retryable: the attempt bound is inclusive
is_retryable_inclusive(status, attempt) ==
    IF status \in NON_RETRYABLE_STATUSES THEN FALSE
    ELSE IF status \in DOMAIN RETRYABLE_STATUSES
         THEN attempt <= RETRYABLE_STATUSES[status]
         ELSE FALSE

is_retryable(status, attempt) ==
    IF status \in NON_RETRYABLE_STATUSES THEN FALSE
    ELSE IF status \in DOMAIN RETRYABLE_STATUSES
         THEN attempt < RETRYABLE_STATUSES[status]
         ELSE FALSE

\* the extension of a file decides its pipeline
KindOf(f) == IF f % 2 = 1 THEN "vector" ELSE "jpg"

Providers == {"Gemini", "OpenAI"}


VARIABLES
    \* configuration of the run; whether the provider accepts the API keys
    provider_name, auto_retry_enabled, api_key_valid,
    \* num_workers of this run: the size of the pool and of a batch
    num_workers,
    \* cancellation signal and the window's stop handling
    stop_event, force_stop, processing_thread, stop_request_time,
    \* file system
    in_exists, out_exists,
    \* rename by title: the files of the output directory, as the set of
    \* [path, of] with the input whose content the path holds, and the
    \* new_path each job has found free
    out_dir, new_path,
    \* batch_process_files: position and locals
    pc, files_to_process, total_files, batch_index,
    processed_count, failed_count, skipped_count, stopped_count, completed_count,
    failed_files, processed_files, futures, current_batch, sub_i,
    batch_futures, consumed, current_api_key_index, progress,
    \* auto-retry locals
    retry_attempt, retry_files, retry_batch_index, retry_processed_files,
    current_retry_failed_files, retry_processed, await_i,
    \* the future and the worker of each file
    wpc, wstatus, wsaw,
    \* is_retryable applied to an argument pair
    arg_pc, arg_status, arg_attempt, arg_result,
    \* a direct call of one function of the program: its inputs, its result
    call_args, call_result,
    \* the provider modules' key rotation: the time of the last use of each
    \* key, the round-robin index, the clock, the key each caller selected and
    \* has not used yet, the keys selected so far, the time of the last 429
    \* answer for each key, and whether a selection returned a key within the
    \* window after its 429 while another key was free
    API_KEY_LAST_USED, API_KEY_INDEX, clock, holder, selections, limited_at,
    parked_returned,
    \* the thread inside `with API_KEY_LOCK` (0: none), the last use each
    \* thread read in wait_for_api_key_cooldown, and the provider requests
    \* started so far with their key and time
    API_KEY_LOCK, last_used, requests,
    \* history: submissions per file, the status every invocation of a file
    \* returned, the stop request and what was seen of it, whether a job was
    \* inside a long call when the stop was requested, deleted inputs and
    \* result timeouts so far
    submits, same_ret, cancel_raised, cancel_seen, submitted_after_cancel,
    call_at_stop, vanished, timeouts

cfgVars == <<provider_name, auto_retry_enabled, api_key_valid, num_workers>>
sigVars == <<stop_event, force_stop>>
uiVars == <<processing_thread, stop_request_time>>
renameVars == <<out_dir, new_path>>
fsVars == <<in_exists, out_exists, renameVars>>
countVars == <<processed_count, failed_count, skipped_count, stopped_count,
               completed_count, progress>>
passVars == <<files_to_process, total_files, batch_index, failed_files,
              processed_files, futures, current_batch, sub_i, batch_futures,
              consumed, current_api_key_index>>
retryVars == <<retry_attempt, retry_files, retry_batch_index,
               retry_processed_files, current_retry_failed_files,
               retry_processed, await_i>>
workerVars == <<wpc, wstatus, wsaw>>
lockVars == <<API_KEY_LOCK, last_used, requests>>
keyVars == <<API_KEY_LAST_USED, API_KEY_INDEX, clock, holder, selections,
             limited_at, parked_returned, lockVars>>
argVars == <<arg_pc, arg_status, arg_attempt, arg_result, call_args, call_result,
             keyVars>>
histVars == <<submits, same_ret, cancel_raised, cancel_seen,
              submitted_after_cancel, call_at_stop, vanished, timeouts>>

vars == <<cfgVars, sigVars, uiVars, fsVars, pc, countVars, passVars, retryVars,
          workerVars, argVars, histVars>>

(* ------------------------------------------------ the cancellation signal *)
\* batch_process_files.should_stop, process_single_file._should_stop and
\* process_vector_file._check_stop: the provider's flag or the stop event
should_stop == stop_event \/ force_stop[provider_name]

\* gemini_api.check_stop_event, polled by the conversion and the EXIF step
gemini_check_stop == force_stop["Gemini"] \/ stop_event

Returned == pc \in {"done", "ended"}

Done(f) == wpc[f] \in {"finished", "cancelled"}

SeqToSet(s) == {s[i] : i \in 1..Len(s)}

\* the elements of s that satisfy Keep, in the order of s
RECURSIVE FilterSeq(_, _)
FilterSeq(s, keep) ==
    IF s = <<>> THEN <<>>
    ELSE IF Head(s) \in keep THEN <<Head(s)>> \o FilterSeq(Tail(s), keep)
         ELSE FilterSeq(Tail(s), keep)

Slice(s, from, n) ==
    SubSeq(s, from + 1, IF from + n < Len(s) THEN from + n ELSE Len(s))

(* ------------------------------------------------------------------ Init *)
InitRun ==
    /\ stop_event = FALSE
    /\ force_stop = [p \in Providers |-> FALSE]
    /\ processing_thread = TRUE
    /\ stop_request_time = FALSE
    /\ in_exists = [f \in Files |-> TRUE]
    /\ out_dir = {}
    /\ new_path = [f \in Files |-> <<>>]
    /\ pc = "start"
    /\ files_to_process = <<>>
    /\ total_files = 0
    /\ batch_index = 0
    /\ processed_count = 0
    /\ failed_count = 0
    /\ skipped_count = 0
    /\ stopped_count = 0
    /\ completed_count = 0
    /\ progress = 0
    /\ failed_files = <<>>
    /\ processed_files = {}
    /\ futures = {}
    /\ current_batch = <<>>
    /\ sub_i = 1
    /\ batch_futures = <<>>
    /\ consumed = {}
    /\ current_api_key_index = 0
    /\ retry_attempt = 1
    /\ retry_files = <<>>
    /\ retry_batch_index = 0
    /\ retry_processed_files = {}
    /\ current_retry_failed_files = <<>>
    /\ retry_processed = 0
    /\ await_i = 1
    /\ wpc = [f \in Files |-> "idle"]
    /\ wstatus = [f \in Files |-> "none"]
    /\ wsaw = [f \in Files |-> FALSE]
    /\ submits = [f \in Files |-> 0]
    /\ same_ret = [f \in Files |-> "none"]
    /\ cancel_raised = FALSE
    /\ cancel_seen = FALSE
    /\ submitted_after_cancel = FALSE
    /\ call_at_stop = FALSE
    /\ vanished = 0
    /\ timeouts = 0

\* the provider modules as imported: no key used, nothing selected
InitKeys ==
    /\ API_KEY_LAST_USED = [k \in Keys |-> 0]
    /\ API_KEY_INDEX = 0
    /\ clock = 1
    /\ holder = [c \in Callers |-> 0]
    /\ selections = <<>>
    /\ limited_at = [k \in Keys |-> 0]
    /\ parked_returned = FALSE
    /\ API_KEY_LOCK = 0
    /\ last_used = [c \in Callers |-> 0]
    /\ requests = <<>>

InitArgs ==
    /\ arg_pc = "idle"
    /\ arg_status = "none"
    /\ arg_attempt = 0
    /\ arg_result = FALSE
    /\ call_args = "none"
    /\ call_result = "none"
    /\ InitKeys

Init ==
    /\ provider_name \in Providers
    /\ auto_retry_enabled \in BOOLEAN
    /\ api_key_valid \in BOOLEAN
    /\ num_workers \in 1..NumWorkers
    /\ out_exists \in {[f \in Files |-> f \in S] : S \in {{}} \cup {{f} : f \in Files}}
    /\ InitRun
    /\ InitArgs

(* ----------------------------------------------- the application window *)
\* _reset_ui_after_processing: clears the Gemini flag and the stop event
reset_ui_after_processing ==
    /\ stop_request_time' = FALSE
    /\ force_stop' = [force_stop EXCEPT !["Gemini"] = FALSE]
    /\ processing_thread' = FALSE
    /\ stop_event' = FALSE

\* the start button is in state NORMAL: _start_processing, which asks nothing
\* about the processing thread, can be called
start_button_normal == ~processing_thread

\* _stop_processing: the user confirms the stop of a live processing thread
StopProcessing ==
    /\ processing_thread
    /\ ~Returned
    /\ ~cancel_raised
    /\ stop_event' = TRUE
    /\ force_stop' = [p \in Providers |-> TRUE]
    /\ stop_request_time' = TRUE
    /\ cancel_raised' = TRUE
    /\ call_at_stop' = \E f \in Files : wpc[f] \in {"convert", "api", "exif"}
    /\ UNCHANGED <<cfgVars, processing_thread, fsVars, pc, countVars, passVars,
                   retryVars, workerVars, argVars, submits, same_ret, cancel_seen,
                   submitted_after_cancel, vanished, timeouts>>

\* ThreadPoolExecutor(max_workers=num_workers): a queued job starts only when
\* fewer than num_workers jobs are running
PoolHasIdleWorker ==
    Cardinality({g \in Files : wpc[g] \notin {"idle", "queued", "finished", "cancelled"}})
        < num_workers

\* the job of f has spent its time in a call that can last for seconds or
\* minutes (the Ghostscript conversion, the provider request, exiftool), or it
\* is queued behind the running jobs of a full pool
LongJob(f) ==
    \/ wpc[f] \in {"convert", "api", "copy", "exif"}
    \/ wpc[f] \in {"post", "ret"} /\ wstatus[f] \notin {"skipped_exists", "failed_worker"}
    \/ wpc[f] = "queued" /\ ~PoolHasIdleWorker

\* batch_process_files is inside a wait for long jobs: as_completed with no
\* completed future, future.result of a retry future, or the shutdown
\* of a pool
ThreadBlocked ==
    \/ pc = "await" /\ \A f \in SeqToSet(batch_futures) \ consumed : LongJob(f)
    \/ pc = "shutdown" /\ \E f \in futures : LongJob(f)
    \/ pc = "retry_result" /\ LongJob(batch_futures[await_i])
    \/ pc = "retry_shutdown" /\ \E f \in retry_processed_files : LongJob(f)

\* _check_thread_ended: the processing thread is alive and has not answered
\* within the timeout threshold since the stop request, which came while a
\* job was inside a long call; the window is reset
CheckThreadEnded ==
    /\ stop_request_time
    /\ call_at_stop
    /\ ThreadBlocked
    /\ reset_ui_after_processing
    /\ UNCHANGED <<cfgVars, fsVars, pc, countVars, passVars, retryVars,
                   workerVars, argVars, histVars>>

\* _run_processing after batch_process_files has returned
RunProcessingDone ==
    /\ pc = "done"
    /\ pc' = "ended"
    /\ reset_ui_after_processing
    /\ UNCHANGED <<cfgVars, fsVars, countVars, passVars, retryVars, workerVars,
                   argVars, histVars>>

\* another program deletes an input file during the run
Vanish(f) ==
    /\ pc \notin {"start", "enumerate", "done", "ended"}
    /\ in_exists[f]
    /\ vanished < MaxVanish
    /\ in_exists' = [in_exists EXCEPT ![f] = FALSE]
    /\ vanished' = vanished + 1
    /\ UNCHANGED <<cfgVars, sigVars, uiVars, out_exists, renameVars, pc,
                   countVars, passVars,
                   retryVars, workerVars, argVars, submits, same_ret,
                   cancel_raised, cancel_seen, submitted_after_cancel,
                   call_at_stop, timeouts>>

(* ------------------------------------- batch_process_files: initial pass *)
\* everything batch_process_files does not write outside its own locals
OrchFrame == UNCHANGED <<cfgVars, stop_event, uiVars, fsVars, argVars, same_ret,
                         cancel_raised, call_at_stop, vanished, timeouts>>

SawStop == cancel_seen' = (cancel_seen \/ should_stop)

\* reset_force_stop(provider_name), then the first should_stop()
BatchStart ==
    /\ pc = "start"
    /\ force_stop' = [force_stop EXCEPT ![provider_name] = FALSE]
    /\ pc' = IF stop_event THEN "done" ELSE "enumerate"
    /\ cancel_seen' = (cancel_seen \/ stop_event)
    /\ OrchFrame
    /\ UNCHANGED <<countVars, passVars, retryVars, workerVars, submits,
                   submitted_after_cancel>>

\* os.listdir and the filter on existing regular files
Enumerate ==
    /\ pc = "enumerate"
    /\ IF should_stop
       THEN /\ pc' = "done"
            /\ UNCHANGED <<files_to_process, total_files>>
       ELSE /\ files_to_process' =
                   FilterSeq([i \in 1..NumFiles |-> i], {f \in Files : in_exists[f]})
            /\ total_files' = Len(files_to_process')
            /\ pc' = IF total_files' = 0 THEN "done" ELSE "initial_check"
    /\ SawStop
    /\ OrchFrame
    /\ UNCHANGED <<force_stop, countVars, batch_index, failed_files,
                   processed_files, futures, current_batch, sub_i, batch_futures,
                   consumed, current_api_key_index, retryVars, workerVars,
                   submits, submitted_after_cancel>>

\* progress_callback(0, total_files), then the stop check before the pool
InitialCheck ==
    /\ pc = "initial_check"
    /\ progress' = 0
    /\ IF should_stop
       THEN /\ stopped_count' = total_files
            /\ pc' = "done"
       ELSE /\ stopped_count' = 0
            /\ pc' = "loop"
    /\ SawStop
    /\ OrchFrame
    /\ UNCHANGED <<force_stop, processed_count, failed_count, skipped_count,
                   completed_count, passVars, retryVars, workerVars, submits,
                   submitted_after_cancel>>

\* current_batch of the initial pass: the slice, without the files that are
\* gone or were submitted before
BuildBatch ==
    LET slice == Slice(files_to_process, batch_index, num_workers)
        batch == FilterSeq(slice, {f \in Files : in_exists[f] /\ f \notin processed_files})
    IN  /\ current_batch' = batch
        /\ sub_i' = 1
        /\ batch_futures' = <<>>
        /\ consumed' = {}
        /\ IF batch = <<>>
           THEN /\ batch_index' = batch_index + num_workers
                /\ pc' = "loop"
           ELSE /\ batch_index' = batch_index
                /\ pc' = "submit"

\* head of the batch loop
LoopHead ==
    /\ pc = "loop"
    /\ IF batch_index < Len(files_to_process) /\ ~should_stop
       THEN IF batch_index > 0
            THEN /\ pc' = "cooldown"
                 /\ UNCHANGED <<current_batch, sub_i, batch_futures, consumed,
                                batch_index>>
            ELSE BuildBatch
       ELSE /\ pc' = "after_loop"
            /\ UNCHANGED <<current_batch, sub_i, batch_futures, consumed,
                           batch_index>>
    /\ SawStop
    /\ OrchFrame
    /\ UNCHANGED <<force_stop, countVars, files_to_process, total_files,
                   failed_files, processed_files, futures, current_api_key_index,
                   retryVars, workerVars, submits, submitted_after_cancel>>

\* the cool-down between two batches has ended, by time or by the signal
Cooldown ==
    /\ pc = "cooldown"
    /\ IF should_stop
       THEN /\ pc' = "after_loop"
            /\ UNCHANGED <<current_batch, sub_i, batch_futures, consumed,
                           batch_index>>
       ELSE BuildBatch
    /\ SawStop
    /\ OrchFrame
    /\ UNCHANGED <<force_stop, countVars, files_to_process, total_files,
                   failed_files, processed_files, futures, current_api_key_index,
                   retryVars, workerVars, submits, submitted_after_cancel>>

\* executor.submit(process_single_file, ...): a new future, not yet running
SubmitJob(f) ==
    /\ wpc' = [wpc EXCEPT ![f] = "queued"]
    /\ wstatus' = [wstatus EXCEPT ![f] = "none"]
    /\ wsaw' = [wsaw EXCEPT ![f] = FALSE]
    /\ submits' = [submits EXCEPT ![f] = @ + 1]
    /\ submitted_after_cancel' = (submitted_after_cancel \/ cancel_raised)
    /\ current_api_key_index' = (current_api_key_index + 1) % NumKeys

NoSubmit == UNCHANGED <<workerVars, submits, submitted_after_cancel,
                        current_api_key_index>>

\* one iteration of the submit loop of the initial pass
SubmitOne ==
    /\ pc = "submit"
    /\ sub_i <= Len(current_batch)
    /\ LET f == current_batch[sub_i] IN
       IF should_stop
       THEN /\ pc' = IF batch_futures = <<>> THEN "post_batch" ELSE "await"
            /\ NoSubmit
            /\ UNCHANGED <<sub_i, batch_futures, futures, processed_files>>
       ELSE IF ~in_exists[f] \/ f \in processed_files
       THEN /\ sub_i' = sub_i + 1
            /\ NoSubmit
            /\ UNCHANGED <<pc, batch_futures, futures, processed_files>>
       ELSE /\ SubmitJob(f)
            /\ batch_futures' = Append(batch_futures, f)
            /\ futures' = futures \cup {f}
            /\ processed_files' = processed_files \cup {f}
            /\ sub_i' = sub_i + 1
            /\ pc' = pc
    /\ SawStop
    /\ OrchFrame
    /\ UNCHANGED <<force_stop, countVars, files_to_process, total_files,
                   batch_index, failed_files, current_batch, consumed, retryVars>>

\* the submit loop has gone through the batch
SubmitDone ==
    /\ pc = "submit"
    /\ sub_i > Len(current_batch)
    /\ pc' = IF batch_futures = <<>> THEN "post_batch" ELSE "await"
    /\ OrchFrame
    /\ UNCHANGED <<force_stop, countVars, passVars, retryVars, workerVars,
                   submits, cancel_seen, submitted_after_cancel>>

\* the counters after a result of the initial pass has been classified
Classify(f, status) ==
    /\ processed_count' = processed_count + (IF status \in ProcessedStatuses THEN 1 ELSE 0)
    /\ skipped_count' = skipped_count + (IF status = "skipped_exists" THEN 1 ELSE 0)
    /\ stopped_count' = stopped_count + (IF status = "stopped" THEN 1 ELSE 0)
    /\ failed_count' = failed_count +
          (IF status \notin ProcessedStatuses \cup {"skipped_exists", "stopped"}
           THEN 1 ELSE 0)
    /\ failed_files' =
          IF status \notin ProcessedStatuses \cup {"skipped_exists", "stopped"}
          THEN Append(failed_files, [fp |-> f, st |-> status, att |-> 1])
          ELSE failed_files

\* progress_callback(completed_count, total_files): the window shows the count
progress_callback_dropped(completed) == progress' = progress

progress_callback(completed) == progress' = completed

\* as_completed hands over a completed future of the batch
AwaitNext(f) ==
    /\ pc = "await"
    /\ f \in SeqToSet(batch_futures) \ consumed
    /\ Done(f)
    /\ IF should_stop
       THEN /\ wpc' = [g \in Files |->
                        IF g \in SeqToSet(batch_futures) /\ wpc[g] = "queued"
                        THEN "cancelled" ELSE wpc[g]]
            /\ pc' = "post_batch"
            /\ UNCHANGED <<countVars, failed_files, consumed>>
       ELSE /\ consumed' = consumed \cup {f}
            /\ pc' = IF consumed' = SeqToSet(batch_futures) THEN "post_batch" ELSE "await"
            /\ wpc' = wpc
            /\ IF wpc[f] = "cancelled"
               THEN /\ stopped_count' = stopped_count + 1
                    /\ UNCHANGED <<processed_count, failed_count, skipped_count,
                                   completed_count, failed_files>>
               ELSE /\ completed_count' = completed_count + 1
                    /\ Classify(f, wstatus[f])
            /\ progress_callback(completed_count')
    /\ SawStop
    /\ OrchFrame
    /\ UNCHANGED <<force_stop, files_to_process, total_files, batch_index,
                   processed_files, futures, current_batch, sub_i, batch_futures,
                   current_api_key_index, retryVars, wstatus, wsaw, submits,
                   submitted_after_cancel>>

\* the stop check after the results of a batch
PostBatch ==
    /\ pc = "post_batch"
    /\ IF should_stop
       THEN /\ pc' = "after_loop"
            /\ batch_index' = batch_index
       ELSE /\ pc' = "loop"
            /\ batch_index' = batch_index + num_workers
    /\ SawStop
    /\ OrchFrame
    /\ UNCHANGED <<force_stop, countVars, files_to_process, total_files,
                   failed_files, processed_files, futures, current_batch, sub_i,
                   batch_futures, consumed, current_api_key_index, retryVars,
                   workerVars, submits, submitted_after_cancel>>

\* after the batch loop: on a stop, set the force flag and count the futures
\* that are not done as stopped
AfterLoop ==
    /\ pc = "after_loop"
    /\ IF should_stop
       THEN LET remaining == {f \in futures : ~Done(f)} IN
            /\ force_stop' = [force_stop EXCEPT ![provider_name] = TRUE]
            /\ wpc' = [g \in Files |->
                        IF g \in futures /\ wpc[g] = "queued" THEN "cancelled" ELSE wpc[g]]
            /\ stopped_count' = stopped_count + Cardinality(remaining)
            /\ completed_count' = completed_count + Cardinality(remaining)
       ELSE UNCHANGED <<force_stop, wpc, stopped_count, completed_count>>
    /\ pc' = "shutdown"
    /\ SawStop
    /\ OrchFrame
    /\ UNCHANGED <<processed_count, failed_count, skipped_count, progress,
                   passVars, retryVars, wstatus, wsaw, submits,
                   submitted_after_cancel>>

\* leaving the with-block of the pool: shutdown(wait=True) returns once no
\* submitted job is queued or running
Shutdown ==
    /\ pc = "shutdown"
    /\ \A f \in futures : Done(f)
    /\ pc' = "retry_entry"
    /\ OrchFrame
    /\ UNCHANGED <<force_stop, countVars, passVars, retryVars, workerVars,
                   submits, cancel_seen, submitted_after_cancel>>

(* ------------------------------------------------- process_single_file *)
WorkerFrame == UNCHANGED <<cfgVars, sigVars, uiVars, pc, countVars, passVars,
                           retryVars, argVars, submits, cancel_raised, call_at_stop,
                           cancel_seen, submitted_after_cancel, vanished,
                           timeouts>>

\* the worker moves on inside the pipeline with the status it has so far
Step(f, next, status, saw) ==
    /\ wpc' = [wpc EXCEPT ![f] = next]
    /\ wstatus' = [wstatus EXCEPT ![f] = status]
    /\ wsaw' = [wsaw EXCEPT ![f] = wsaw[f] \/ saw]
    /\ same_ret' = same_ret

\* process_single_file returns {"status": status, ...}: the future is done
Return(f, status, saw) ==
    /\ wpc' = [wpc EXCEPT ![f] = "finished"]
    /\ wstatus' = [wstatus EXCEPT ![f] = status]
    /\ wsaw' = [wsaw EXCEPT ![f] = wsaw[f] \/ saw]
    /\ same_ret' = [same_ret EXCEPT ![f] =
                      IF @ \in {"none", status} THEN status ELSE "mixed"]

\* a worker thread takes the job: the stop checks, the check of the input
\* path, and for a vector file the preamble of process_vector_file; the call
\* of process_jpg_jpeg, process_png or process_video passes ten positional
\* arguments to a function of at most nine parameters, and the TypeError is
\* caught as failed_worker
W_Start(f) ==
    /\ wpc[f] = "queued"
    /\ PoolHasIdleWorker
    /\ IF should_stop THEN Return(f, "stopped", TRUE)
       ELSE IF ~in_exists[f] THEN Return(f, "failed_input_missing", FALSE)
       ELSE IF KindOf(f) # "vector" THEN Step(f, "ret", "failed_worker", FALSE)
       ELSE IF out_exists[f] THEN Step(f, "post", "skipped_exists", FALSE)
       ELSE Step(f, "convert", "none", FALSE)
    /\ WorkerFrame
    /\ UNCHANGED fsVars

\* convert_eps_to_jpg / convert_svg_to_jpg end: aborted by the signal, failed,
\* or a temporary raster
W_Convert(f) ==
    /\ wpc[f] = "convert"
    /\ IF gemini_check_stop THEN Step(f, "post", "failed_conversion", TRUE)
       ELSE \E ok \in BOOLEAN :
              IF ok THEN Step(f, "api", "none", FALSE)
              ELSE Step(f, "post", "failed_conversion", FALSE)
    /\ WorkerFrame
    /\ UNCHANGED fsVars

\* provider_manager.get_metadata returns "stopped", an error dict or metadata;
\* with keys the provider rejects (HTTP 401 or 403) it returns an error dict
W_Api(f) ==
    /\ wpc[f] = "api"
    /\ IF should_stop THEN Step(f, "post", "stopped", TRUE)
       ELSE \E ok \in (IF api_key_valid THEN BOOLEAN ELSE {FALSE}) :
              IF ok THEN Step(f, "copy", "none", FALSE)
              ELSE Step(f, "post", "failed_api", FALSE)
    /\ WorkerFrame
    /\ UNCHANGED fsVars

\* the stop check after the provider call, then shutil.copy2 to the output
W_Copy(f) ==
    /\ wpc[f] = "copy"
    /\ IF should_stop
       THEN /\ Step(f, "post", "stopped", TRUE)
            /\ UNCHANGED fsVars
       ELSE \E ok \in BOOLEAN :
              IF ok
              THEN /\ Step(f, "exif", "none", FALSE)
                   /\ out_exists' = [out_exists EXCEPT ![f] = TRUE]
                   /\ UNCHANGED <<in_exists, renameVars>>
              ELSE /\ Step(f, "post", "failed_copy", FALSE)
                   /\ UNCHANGED fsVars
    /\ WorkerFrame

\* the outcomes of write_exif_with_exiftool when it proceeds
ExifOutcomes == {"exif_ok", "exif_failed"}

\* process_vector_file maps the EXIF status of a proceeding embed
ExifStatus(e) ==
    CASE e = "exif_ok" -> "processed_exif"
      [] e = "exif_failed" -> "processed_exif_failed"
      [] e = "no_metadata" -> "processed_no_exif"
      [] e = "exiftool_not_found" -> "processed_exif_failed"
      [] OTHER -> "processed_unknown_exif_status"

\* write_exif_with_exiftool: (False, "stopped") on the signal, else it
\* proceeds; not proceeding is returned as failed_<exif status>
W_Exif(f) ==
    /\ wpc[f] = "exif"
    /\ IF gemini_check_stop THEN Step(f, "post", "failed_stopped", TRUE)
       ELSE \E e \in ExifOutcomes : Step(f, "post", ExifStatus(e), FALSE)
    /\ WorkerFrame
    /\ UNCHANGED fsVars

\* back in process_single_file: the stop check after the pipeline, then for
\* a processed status the removal of the input file
W_Post(f) ==
    /\ wpc[f] = "post"
    /\ IF should_stop
       THEN /\ Return(f, "stopped", TRUE)
            /\ UNCHANGED fsVars
       ELSE IF wstatus[f] \in ProcessedStatuses
       THEN /\ Step(f, "ret", wstatus[f], FALSE)
            /\ in_exists' = [in_exists EXCEPT ![f] = FALSE]
            /\ UNCHANGED <<out_exists, renameVars>>
       ELSE /\ Return(f, wstatus[f], FALSE)
            /\ UNCHANGED fsVars
    /\ WorkerFrame

\* the last stop check of process_single_file, then the result dict
W_Return(f) ==
    /\ wpc[f] = "ret"
    /\ IF should_stop THEN Return(f, "stopped", TRUE)
       ELSE Return(f, wstatus[f], FALSE)
    /\ WorkerFrame
    /\ UNCHANGED fsVars

(* --------------------------------------- batch_process_files: auto retry *)
\* the first entry of failed_files for a path; the defaults of the requeue
\* loop when there is none
EntryOf(fp) ==
    LET idx == {i \in 1..Len(failed_files) : failed_files[i].fp = fp} IN
    IF idx = {} THEN [fp |-> fp, st |-> "failed_unknown", att |-> 1]
    ELSE failed_files[CHOOSE i \in idx : \A j \in idx : i <= j]

\* the paths of the entries that the retry entry keeps
RECURSIVE RetryablePaths(_)
RetryablePaths(entries) ==
    IF entries = <<>> THEN <<>>
    ELSE LET e == Head(entries) IN
         IF in_exists[e.fp] /\ is_retryable(e.st, e.att)
         THEN <<e.fp>> \o RetryablePaths(Tail(entries))
         ELSE RetryablePaths(Tail(entries))

RECURSIVE KeepEntries(_, _)
KeepEntries(entries, keep) ==
    IF entries = <<>> THEN <<>>
    ELSE IF Head(entries).fp \in keep
         THEN <<Head(entries)>> \o KeepEntries(Tail(entries), keep)
         ELSE KeepEntries(Tail(entries), keep)

\* entry of the auto retry: the retryable entries of failed_files whose input
\* still exists
RetryEntry ==
    /\ pc = "retry_entry"
    /\ retry_attempt' = 1
    /\ IF auto_retry_enabled /\ failed_count > 0 /\ ~should_stop
       THEN /\ retry_files' = RetryablePaths(failed_files)
            /\ pc' = "retry_round"
       ELSE /\ retry_files' = <<>>
            /\ pc' = "finish"
    /\ SawStop
    /\ OrchFrame
    /\ UNCHANGED <<force_stop, countVars, passVars, retry_batch_index,
                   retry_processed_files, current_retry_failed_files,
                   retry_processed, await_i, workerVars, submits,
                   submitted_after_cancel>>

\* head of the while loop over retry rounds: a new pool for the round
RetryRoundHead ==
    /\ pc = "retry_round"
    /\ IF retry_files # <<>> /\ ~should_stop
       THEN /\ retry_processed' = 0
            /\ retry_processed_files' = {}
            /\ current_retry_failed_files' = <<>>
            /\ retry_batch_index' = 0
            /\ pc' = "retry_loop"
       ELSE /\ pc' = "finish"
            /\ UNCHANGED <<retry_processed, retry_processed_files,
                           current_retry_failed_files, retry_batch_index>>
    /\ SawStop
    /\ OrchFrame
    /\ UNCHANGED <<force_stop, countVars, passVars, retry_attempt, retry_files,
                   await_i, workerVars, submits, submitted_after_cancel>>

\* current_retry_batch: the slice of retry_files, without the files that are
\* gone or were submitted in this round
BuildRetryBatch ==
    LET slice == Slice(retry_files, retry_batch_index, num_workers)
        batch == FilterSeq(slice, {f \in Files : in_exists[f] /\ f \notin retry_processed_files})
    IN  /\ current_batch' = batch
        /\ sub_i' = 1
        /\ batch_futures' = <<>>
        /\ await_i' = 1
        /\ IF batch = <<>>
           THEN /\ retry_batch_index' = retry_batch_index + num_workers
                /\ pc' = "retry_loop"
           ELSE /\ retry_batch_index' = retry_batch_index
                /\ pc' = "retry_submit"

RetryLoopHead ==
    /\ pc = "retry_loop"
    /\ IF retry_batch_index < Len(retry_files) /\ ~should_stop
       THEN IF retry_batch_index > 0
            THEN /\ pc' = "retry_cooldown"
                 /\ UNCHANGED <<current_batch, sub_i, batch_futures, await_i,
                                retry_batch_index>>
            ELSE BuildRetryBatch
       ELSE /\ pc' = "retry_shutdown"
            /\ UNCHANGED <<current_batch, sub_i, batch_futures, await_i,
                           retry_batch_index>>
    /\ SawStop
    /\ OrchFrame
    /\ UNCHANGED <<force_stop, countVars, files_to_process, total_files,
                   batch_index, failed_files, processed_files, futures, consumed,
                   current_api_key_index, retry_attempt, retry_files,
                   retry_processed_files, current_retry_failed_files,
                   retry_processed, workerVars, submits, submitted_after_cancel>>

RetryCooldown ==
    /\ pc = "retry_cooldown"
    /\ IF should_stop
       THEN /\ pc' = "retry_shutdown"
            /\ UNCHANGED <<current_batch, sub_i, batch_futures, await_i,
                           retry_batch_index>>
       ELSE BuildRetryBatch
    /\ SawStop
    /\ OrchFrame
    /\ UNCHANGED <<force_stop, countVars, files_to_process, total_files,
                   batch_index, failed_files, processed_files, futures, consumed,
                   current_api_key_index, retry_attempt, retry_files,
                   retry_processed_files, current_retry_failed_files,
                   retry_processed, workerVars, submits, submitted_after_cancel>>

\* one iteration of the submit loop of a retry round
RetrySubmitOne ==
    /\ pc = "retry_submit"
    /\ sub_i <= Len(current_batch)
    /\ LET f == current_batch[sub_i] IN
       IF should_stop
       THEN /\ pc' = IF batch_futures = <<>> THEN "retry_loop" ELSE "retry_await"
            /\ retry_batch_index' =
                 IF batch_futures = <<>> THEN retry_batch_index + num_workers
                 ELSE retry_batch_index
            /\ NoSubmit
            /\ UNCHANGED <<sub_i, batch_futures, retry_processed_files>>
       ELSE IF ~in_exists[f] \/ f \in retry_processed_files
       THEN /\ sub_i' = sub_i + 1
            /\ NoSubmit
            /\ UNCHANGED <<pc, batch_futures, retry_processed_files,
                           retry_batch_index>>
       ELSE /\ SubmitJob(f)
            /\ batch_futures' = Append(batch_futures, f)
            /\ retry_processed_files' = retry_processed_files \cup {f}
            /\ sub_i' = sub_i + 1
            /\ UNCHANGED <<pc, retry_batch_index>>
    /\ SawStop
    /\ OrchFrame
    /\ UNCHANGED <<force_stop, countVars, files_to_process, total_files,
                   batch_index, failed_files, processed_files, futures,
                   current_batch, consumed, retry_attempt, retry_files,
                   current_retry_failed_files, retry_processed, await_i>>

RetrySubmitDone ==
    /\ pc = "retry_submit"
    /\ sub_i > Len(current_batch)
    /\ pc' = IF batch_futures = <<>> THEN "retry_loop" ELSE "retry_await"
    /\ retry_batch_index' =
         IF batch_futures = <<>> THEN retry_batch_index + num_workers
         ELSE retry_batch_index
    /\ OrchFrame
    /\ UNCHANGED <<force_stop, countVars, passVars, retry_attempt, retry_files,
                   retry_processed_files, current_retry_failed_files,
                   retry_processed, await_i, workerVars, submits, cancel_seen,
                   submitted_after_cancel>>

\* failed_files after a retry of fp has failed with status: the entries of
\* fp carry the new status and one more attempt
BumpEntries(entries, fp, status) ==
    [i \in 1..Len(entries) |->
        IF entries[i].fp = fp
        THEN [fp |-> fp, st |-> status, att |-> entries[i].att + 1]
        ELSE entries[i]]

\* new_attempt of the failure branch: the attempt of the last entry of fp
\* plus one, or 1 when failed_files has no entry of fp
NewAttempt(entries, fp) ==
    LET idx == {i \in 1..Len(entries) : entries[i].fp = fp} IN
    IF idx = {} THEN 1
    ELSE entries[CHOOSE i \in idx : \A j \in idx : j <= i].att + 1

\* where the result loop of a retry batch goes when it ends
AfterRetryResult(last) ==
    IF last THEN "retry_post_batch" ELSE "retry_await"

\* head of the result loop of a retry batch: on the signal the futures of the
\* batch are cancelled and the loop is left, else future.result is entered
RetryAwaitCheck ==
    /\ pc = "retry_await"
    /\ await_i <= Len(batch_futures)
    /\ IF should_stop
       THEN /\ wpc' = [g \in Files |->
                        IF g \in SeqToSet(batch_futures) /\ wpc[g] = "queued"
                        THEN "cancelled" ELSE wpc[g]]
            /\ pc' = "retry_post_batch"
       ELSE /\ wpc' = wpc
            /\ pc' = "retry_result"
    /\ SawStop
    /\ OrchFrame
    /\ UNCHANGED <<force_stop, countVars, passVars, retryVars, wstatus, wsaw,
                   submits, submitted_after_cancel>>

\* future.result(timeout=120) of the retry future returns or raises
\* CancelledError
RetryAwaitResult ==
    /\ pc = "retry_result"
    /\ LET f == batch_futures[await_i]
           status == wstatus[f]
           last == await_i = Len(batch_futures)
       IN
       /\ Done(f)
       /\ await_i' = await_i + 1
       /\ IF wpc[f] = "cancelled"
          THEN /\ pc' = AfterRetryResult(last)
               /\ UNCHANGED <<processed_count, failed_count, failed_files,
                              retry_processed, current_retry_failed_files>>
          ELSE IF status \in ProcessedStatuses
          THEN /\ retry_processed' = retry_processed + 1
               /\ processed_count' = processed_count + 1
               /\ failed_count' = failed_count - 1
               /\ failed_files' = KeepEntries(failed_files, Files \ {f})
               /\ pc' = AfterRetryResult(last)
               /\ UNCHANGED current_retry_failed_files
          ELSE IF status = "stopped"
          THEN /\ pc' = "retry_post_batch"
               /\ UNCHANGED <<processed_count, failed_count, failed_files,
                              retry_processed, current_retry_failed_files>>
          ELSE /\ failed_files' = BumpEntries(failed_files, f, status)
               /\ current_retry_failed_files' =
                    IF is_retryable(status, NewAttempt(failed_files, f))
                    THEN Append(current_retry_failed_files, f)
                    ELSE current_retry_failed_files
               /\ pc' = AfterRetryResult(last)
               /\ UNCHANGED <<processed_count, failed_count, retry_processed>>
    /\ OrchFrame
    /\ UNCHANGED <<force_stop, skipped_count, stopped_count, completed_count,
                   progress, files_to_process, total_files, batch_index,
                   processed_files, futures, current_batch, sub_i, batch_futures,
                   consumed, current_api_key_index, retry_attempt, retry_files,
                   retry_batch_index, retry_processed_files, workerVars, submits,
                   cancel_seen, submitted_after_cancel>>

\* future.result(timeout=120) raises TimeoutError: the job is still queued
\* or running after 120 seconds; the file is requeued with its attempt as is
RetryTimeout ==
    /\ pc = "retry_result"
    /\ timeouts < MaxTimeouts
    /\ LET f == batch_futures[await_i] IN
       /\ LongJob(f)
       /\ current_retry_failed_files' = Append(current_retry_failed_files, f)
       /\ pc' = AfterRetryResult(await_i = Len(batch_futures))
    /\ await_i' = await_i + 1
    /\ timeouts' = timeouts + 1
    /\ UNCHANGED <<cfgVars, sigVars, uiVars, fsVars, countVars, passVars,
                   retry_attempt, retry_files, retry_batch_index,
                   retry_processed_files, retry_processed, workerVars, argVars,
                   submits, same_ret, cancel_raised, cancel_seen,
                   submitted_after_cancel, call_at_stop, vanished>>

\* the stop check after the results of a retry batch
RetryPostBatch ==
    /\ pc = "retry_post_batch"
    /\ IF should_stop
       THEN /\ pc' = "retry_shutdown"
            /\ retry_batch_index' = retry_batch_index
       ELSE /\ pc' = "retry_loop"
            /\ retry_batch_index' = retry_batch_index + num_workers
    /\ SawStop
    /\ OrchFrame
    /\ UNCHANGED <<force_stop, countVars, passVars, retry_attempt, retry_files,
                   retry_processed_files, current_retry_failed_files,
                   retry_processed, await_i, workerVars, submits,
                   submitted_after_cancel>>

\* leaving the with-block of the retry pool
RetryShutdown ==
    /\ pc = "retry_shutdown"
    /\ \A f \in retry_processed_files : Done(f)
    /\ pc' = "retry_round_end"
    /\ OrchFrame
    /\ UNCHANGED <<force_stop, countVars, passVars, retryVars, workerVars,
                   submits, cancel_seen, submitted_after_cancel>>

\* the files of current_retry_failed_files that are requeued
RECURSIVE Requeue(_)
Requeue(paths) ==
    IF paths = <<>> THEN <<>>
    ELSE LET fp == Head(paths)
             e == EntryOf(fp)
         IN  IF in_exists[fp] /\ is_retryable(e.st, e.att)
             THEN <<fp>> \o Requeue(Tail(paths))
             ELSE Requeue(Tail(paths))

\* the end of a retry round: `break` when nothing succeeded and nothing is
\* left to retry, otherwise back to the `while`
after_round_no_progress(processed, files) ==
    IF processed = 0 THEN "finish" ELSE "retry_round"

after_round(processed, files) ==
    IF processed = 0 /\ files = <<>> THEN "finish" ELSE "retry_round"

\* end of a retry round: the next retry_files and the exit test
RetryRoundEnd ==
    /\ pc = "retry_round_end"
    /\ retry_files' = Requeue(current_retry_failed_files)
    /\ retry_attempt' = retry_attempt + 1
    /\ pc' = after_round(retry_processed, retry_files')
    /\ OrchFrame
    /\ UNCHANGED <<force_stop, countVars, passVars, retry_batch_index,
                   retry_processed_files, current_retry_failed_files,
                   retry_processed, await_i, workerVars, submits, cancel_seen,
                   submitted_after_cancel>>

\* the summary and the returned counts
Finish ==
    /\ pc = "finish"
    /\ pc' = "done"
    /\ OrchFrame
    /\ UNCHANGED <<force_stop, countVars, passVars, retryVars, workerVars,
                   submits, cancel_seen, submitted_after_cancel>>

(* --------------------------------------------------------- specification *)
Orchestrator ==
    \/ BatchStart \/ Enumerate \/ InitialCheck
    \/ LoopHead \/ Cooldown \/ SubmitOne \/ SubmitDone
    \/ (\E f \in Files : AwaitNext(f))
    \/ PostBatch \/ AfterLoop \/ Shutdown
    \/ RetryEntry \/ RetryRoundHead \/ RetryLoopHead \/ RetryCooldown
    \/ RetrySubmitOne \/ RetrySubmitDone
    \/ RetryAwaitCheck \/ RetryAwaitResult \/ RetryTimeout
    \/ RetryPostBatch \/ RetryShutdown \/ RetryRoundEnd \/ Finish

Worker(f) ==
    \/ W_Start(f) \/ W_Convert(f) \/ W_Api(f) \/ W_Copy(f) \/ W_Exif(f)
    \/ W_Post(f) \/ W_Return(f)

Window == StopProcessing \/ CheckThreadEnded \/ RunProcessingDone

Next ==
    \/ Orchestrator
    \/ (\E f \in Files : Worker(f))
    \/ Window
    \/ (\E f \in Files : Vanish(f))

Spec == Init /\ [][Next]_vars

\* ---- the initial pass alone: a run with auto retry switched off ----
InitInitialPass ==
    /\ Init
    /\ ~auto_retry_enabled
    /\ api_key_valid
    /\ num_workers = NumFiles - 1

NextInitialPass ==
    \/ BatchStart \/ Enumerate \/ InitialCheck
    \/ LoopHead \/ Cooldown \/ SubmitOne \/ SubmitDone
    \/ (\E f \in Files : AwaitNext(f))
    \/ PostBatch \/ AfterLoop \/ Shutdown \/ RetryEntry \/ Finish
    \/ (\E f \in Files : Worker(f))
    \/ Window
    \/ (\E f \in Files : Vanish(f))

SpecInitialPass == InitInitialPass /\ [][NextInitialPass]_vars

\* ---- a run with auto retry on which nobody stops, no input vanishes and
\* no wait for a result runs out ----
InitRetryPass ==
    /\ Init
    /\ auto_retry_enabled
    /\ provider_name = "Gemini"
    /\ api_key_valid
    /\ num_workers = NumFiles - 1
    /\ \A f \in Files : ~out_exists[f]

NextRetryPass ==
    \/ BatchStart \/ Enumerate \/ InitialCheck
    \/ LoopHead \/ Cooldown \/ SubmitOne \/ SubmitDone
    \/ (\E f \in Files : AwaitNext(f))
    \/ PostBatch \/ AfterLoop \/ Shutdown
    \/ RetryEntry \/ RetryRoundHead \/ RetryLoopHead \/ RetryCooldown
    \/ RetrySubmitOne \/ RetrySubmitDone
    \/ RetryAwaitCheck \/ RetryAwaitResult
    \/ RetryPostBatch \/ RetryShutdown \/ RetryRoundEnd \/ Finish
    \/ (\E f \in Files : Worker(f))

SpecRetryPass == InitRetryPass /\ [][NextRetryPass]_vars

(* ------------------------------------------- is_retryable on its own *)
\* the status strings tried on is_retryable
StatusArgs ==
    ProcessedStatuses \cup DOMAIN RETRYABLE_STATUSES \cup NON_RETRYABLE_STATUSES
        \cup {"skipped_exists", "stopped", "failed_unknown", "failed_stopped",
              "FAILED_API", ""}

InitRetryable ==
    /\ provider_name = "Gemini"
    /\ auto_retry_enabled = TRUE
    /\ api_key_valid = TRUE
    /\ num_workers = 1
    /\ out_exists = [f \in Files |-> FALSE]
    /\ InitRun
    /\ arg_pc = "call"
    /\ arg_status \in StatusArgs
    /\ arg_attempt \in 0..MaxAttemptArg
    /\ arg_result = FALSE
    /\ call_args = "none"
    /\ call_result = "none"
    /\ InitKeys

\* a call is_retryable(arg_status, arg_attempt) returns
CallIsRetryable ==
    /\ arg_pc = "call"
    /\ arg_result' = is_retryable(arg_status, arg_attempt)
    /\ arg_pc' = "returned"
    /\ UNCHANGED <<cfgVars, sigVars, uiVars, fsVars, pc, countVars, passVars,
                   retryVars, workerVars, arg_status, arg_attempt, call_args,
                   call_result, keyVars, histVars>>

SpecRetryable == InitRetryable /\ [][CallIsRetryable]_vars

\* ---- the three pipelines, as functions of the outcomes of their steps ----

\* what a pipeline returns: the status, whether an exception left the
\* function instead, whether a temporary file is left behind, whether the
\* output file is left in the output directory, whether the output path is
\* returned, and the steps that were run
Ret(status, out, path, called) ==
    [status |-> status, raised |-> FALSE, temp_left |-> FALSE,
     out_left |-> out, out_path |-> path, called |-> called]

Raised(temp, called) ==
    [status |-> "exception", raised |-> TRUE, temp_left |-> temp,
     out_left |-> FALSE, out_path |-> FALSE, called |-> called]

\* the stop check named c of this call is the first to see the signal
Seen(p, c) == p.stop_at = c

\* the status of a provider result that is no metadata
MetadataStatus_lenient(r) ==
    IF r = "stopped" THEN "stopped" ELSE "failed_unknown"

MetadataStatus(r) ==
    IF r = "stopped" THEN "stopped" ELSE "failed_api"

\* the status when the embedding refused to proceed
FailedExif(s) == "failed_" \o s

\* the status after an embedding that proceeded: images and vectors
ImageExifStatus(s) ==
    CASE s = "exif_ok" -> "processed_exif"
      [] s = "exif_failed" -> "processed_exif_failed"
      [] s = "no_metadata" -> "processed_no_exif"
      [] s = "exiftool_not_found" -> "processed_exif_failed"
      [] OTHER -> "processed_unknown_exif_status"

\* the status after an embedding that proceeded: videos
VideoExifStatus(s) ==
    CASE s = "exif_ok" -> "processed_exif"
      [] s = "exif_failed" -> "processed_exif_failed"
      [] s = "exif_timeout" -> "processed_exif_timeout"
      [] s = "no_metadata" -> "processed_no_exif"
      [] s = "exiftool_not_found" -> "processed_exif_failed"
      [] OTHER -> "processed_unknown_exif_status"

process_vector_file(p) ==
    IF Seen(p, "entry") THEN Ret("stopped", FALSE, FALSE, {})
    ELSE IF p.out_there THEN Ret("skipped_exists", TRUE, TRUE, {})
    ELSE IF ~p.tmp_ok THEN Raised(FALSE, {})
    ELSE IF Seen(p, "pre_convert") THEN Ret("stopped", FALSE, FALSE, {})
    ELSE IF p.conv = "fail"
         THEN Ret("failed_conversion", FALSE, FALSE, {"convert"})
    ELSE IF p.provider = "raise" THEN Raised(TRUE, {"convert", "api"})
    ELSE IF p.provider # "metadata"
         THEN Ret(MetadataStatus(p.provider), FALSE, FALSE, {"convert", "api"})
    ELSE IF Seen(p, "pre_copy")
         THEN Ret("stopped", FALSE, FALSE, {"convert", "api"})
    ELSE IF p.copy = "raise"
         THEN Ret("failed_copy", FALSE, FALSE, {"convert", "api", "copy"})
    ELSE IF ~p.embedding_enabled
         THEN Ret("processed_no_exif", TRUE, TRUE, {"convert", "api", "copy"})
    ELSE IF ~p.exif.proceed
         THEN Ret(FailedExif(p.exif.status), TRUE, TRUE,
                  {"convert", "api", "copy", "exif"})
    ELSE Ret(ImageExifStatus(p.exif.status), TRUE, TRUE,
             {"convert", "api", "copy", "exif"})

process_jpg_jpeg(p) ==
    IF Seen(p, "entry") THEN Ret("stopped", FALSE, FALSE, {})
    ELSE IF p.out_there THEN Ret("skipped_exists", TRUE, TRUE, {})
    ELSE IF ~p.tmp_ok THEN Ret("failed_unknown", FALSE, FALSE, {})
    ELSE IF Seen(p, "pre_api") THEN Ret("stopped", FALSE, FALSE, {})
    ELSE IF p.provider = "raise" THEN Raised(TRUE, {"api"})
    ELSE IF p.provider # "metadata"
         THEN Ret(MetadataStatus(p.provider), FALSE, FALSE, {"api"})
    ELSE IF Seen(p, "pre_copy") THEN Ret("stopped", FALSE, FALSE, {"api"})
    ELSE IF p.copy = "raise"
         THEN Ret("failed_copy", FALSE, FALSE, {"api", "copy"})
    ELSE IF Seen(p, "post_copy")
         THEN Ret("stopped", FALSE, FALSE, {"api", "copy"})
    ELSE IF ~p.embedding_enabled
         THEN Ret("processed_no_exif", TRUE, TRUE, {"api", "copy"})
    ELSE IF ~p.exif.proceed
         THEN Ret(FailedExif(p.exif.status), p.exif.status = "copy_failed",
                  FALSE, {"api", "copy", "exif"})
    ELSE Ret(ImageExifStatus(p.exif.status), TRUE, TRUE,
             {"api", "copy", "exif"})

process_video(p) ==
    IF Seen(p, "entry") THEN Ret("stopped", FALSE, FALSE, {})
    ELSE IF p.out_there THEN Ret("skipped_exists", TRUE, TRUE, {})
    ELSE IF ~p.tmp_ok THEN Ret("failed_unknown", FALSE, FALSE, {})
    ELSE IF p.frames \in {"none", "raise"}
         THEN Ret("failed_frames", FALSE, FALSE, {"frames"})
    ELSE IF Seen(p, "post_frames")
         THEN Ret("stopped", FALSE, FALSE, {"frames"})
    ELSE IF Seen(p, "pre_api") THEN Ret("stopped", FALSE, FALSE, {"frames"})
    ELSE IF p.frames = "vanished"
         THEN Ret("failed_frames", FALSE, FALSE, {"frames"})
    ELSE IF p.provider = "raise" THEN Raised(TRUE, {"frames", "api"})
    ELSE IF p.provider # "metadata"
         THEN Ret(MetadataStatus(p.provider), FALSE, FALSE, {"frames", "api"})
    ELSE IF Seen(p, "pre_copy")
         THEN Ret("stopped", FALSE, FALSE, {"frames", "api"})
    ELSE IF p.copy = "raise"
         THEN Ret("failed_copy", FALSE, FALSE, {"frames", "api", "copy"})
    ELSE IF Seen(p, "post_copy")
         THEN Ret("stopped", FALSE, FALSE, {"frames", "api", "copy"})
    ELSE IF ~p.writable \/ ~p.embedding_enabled
         THEN Ret("processed_no_exif", TRUE, TRUE, {"frames", "api", "copy"})
    ELSE IF ~p.exif.proceed
         THEN Ret(FailedExif(p.exif.status), TRUE, TRUE,
                  {"frames", "api", "copy", "exif"})
    ELSE Ret(VideoExifStatus(p.exif.status), TRUE, TRUE,
             {"frames", "api", "copy", "exif"})

\* the pipeline of the kind of the file
Pipeline(p) ==
    CASE p.kind = "vector" -> process_vector_file(p)
      [] p.kind = "jpg" -> process_jpg_jpeg(p)
      [] p.kind = "video" -> process_video(p)

ProviderResults == {"metadata", "stopped", "error", "invalid", "raise"}

\* what write_exif_with_exiftool and write_exif_to_video return
ImageExifResults ==
    {[proceed |-> FALSE, status |-> "stopped"],
     [proceed |-> FALSE, status |-> "copy_failed"],
     [proceed |-> TRUE, status |-> "no_metadata"],
     [proceed |-> TRUE, status |-> "exiftool_not_found"],
     [proceed |-> TRUE, status |-> "exif_ok"],
     [proceed |-> TRUE, status |-> "exif_failed"]}

VideoExifResults ==
    {[proceed |-> FALSE, status |-> "stopped"],
     [proceed |-> FALSE, status |-> "output_missing"],
     [proceed |-> TRUE, status |-> "no_metadata"],
     [proceed |-> TRUE, status |-> "exiftool_not_found"],
     [proceed |-> TRUE, status |-> "exif_ok"],
     [proceed |-> TRUE, status |-> "exif_failed"],
     [proceed |-> TRUE, status |-> "exif_timeout"]}

\* the inputs of a pipeline: the file, and the outcome of every step it may run
PipelineArgs ==
    [kind : {"vector"}, stop_at : {"never", "entry", "pre_convert", "pre_copy"},
     out_there : BOOLEAN, tmp_ok : BOOLEAN, conv : {"ok", "fail"},
     frames : {"some"}, provider : ProviderResults, copy : {"ok", "raise"},
     embedding_enabled : BOOLEAN, writable : {TRUE}, exif : ImageExifResults]
    \cup
    [kind : {"jpg"},
     stop_at : {"never", "entry", "pre_api", "pre_copy", "post_copy"},
     out_there : BOOLEAN, tmp_ok : BOOLEAN, conv : {"ok"},
     frames : {"some"}, provider : ProviderResults, copy : {"ok", "raise"},
     embedding_enabled : BOOLEAN, writable : {TRUE}, exif : ImageExifResults]
    \cup
    [kind : {"video"},
     stop_at : {"never", "entry", "post_frames", "pre_api", "pre_copy",
                "post_copy"},
     out_there : BOOLEAN, tmp_ok : BOOLEAN, conv : {"ok"},
     frames : {"some", "none", "raise", "vanished"},
     provider : ProviderResults, copy : {"ok", "raise"},
     embedding_enabled : BOOLEAN, writable : BOOLEAN, exif : VideoExifResults]

InitPipeline ==
    /\ provider_name = "Gemini"
    /\ auto_retry_enabled = TRUE
    /\ api_key_valid = TRUE
    /\ num_workers = 1
    /\ out_exists = [f \in Files |-> FALSE]
    /\ InitRun
    /\ arg_pc = "call"
    /\ arg_status = "none"
    /\ arg_attempt = 0
    /\ arg_result = FALSE
    /\ call_args \in PipelineArgs
    /\ call_result = "none"
    /\ InitKeys

\* a call of the pipeline returns, or an exception leaves it
CallPipeline ==
    /\ arg_pc = "call"
    /\ call_result' = Pipeline(call_args)
    /\ arg_pc' = "returned"
    /\ UNCHANGED <<cfgVars, sigVars, uiVars, fsVars, pc, countVars, passVars,
                   retryVars, workerVars, arg_status, arg_attempt, arg_result,
                   call_args, keyVars, histVars>>

SpecPipeline == InitPipeline /\ [][CallPipeline]_vars

\* ---- the key rotation of the provider modules ----

\* select_smart_api_key: the key used least recently, the first of the list
\* among keys with the same time
LeastRecentlyUsed ==
    CHOOSE k \in Keys :
        \A j \in Keys :
            \/ API_KEY_LAST_USED[k] < API_KEY_LAST_USED[j]
            \/ (API_KEY_LAST_USED[k] = API_KEY_LAST_USED[j] /\ k <= j)

\* select_api_key of the other providers: keys[_API_KEY_INDEX % len(keys)]
RoundRobin == (API_KEY_INDEX % NumKeys) + 1

\* a key is parked while the window after its last 429 answer is running
Parked(k) == limited_at[k] # 0 /\ clock < limited_at[k] + ParkWindow

InitKeyRotation ==
    /\ provider_name \in Providers
    /\ auto_retry_enabled = TRUE
    /\ api_key_valid = TRUE
    /\ num_workers = 1
    /\ out_exists = [f \in Files |-> FALSE]
    /\ InitRun
    /\ arg_pc = "idle"
    /\ arg_status = "none"
    /\ arg_attempt = 0
    /\ arg_result = FALSE
    /\ call_args = "none"
    /\ call_result = "none"
    /\ InitKeys

KeyFrame ==
    UNCHANGED <<cfgVars, sigVars, uiVars, fsVars, pc, countVars, passVars,
                retryVars, workerVars, arg_pc, arg_status, arg_attempt,
                arg_result, call_args, call_result, histVars>>

\* provider_manager.select_api_key, called by process_single_file
SelectKey(c) ==
    /\ holder[c] = 0
    /\ Len(selections) < MaxSelections
    /\ LET key == IF provider_name = "Gemini" THEN LeastRecentlyUsed
                  ELSE RoundRobin
       IN  /\ holder' = [holder EXCEPT ![c] = key]
           /\ selections' = Append(selections, key)
           /\ parked_returned' =
                  (parked_returned
                     \/ (Parked(key) /\ \E k \in Keys : ~Parked(k)))
           /\ IF provider_name = "Gemini"
              THEN /\ API_KEY_LAST_USED' =
                          [API_KEY_LAST_USED EXCEPT ![key] = clock]
                   /\ clock' = clock + 1
                   /\ UNCHANGED API_KEY_INDEX
              ELSE /\ API_KEY_INDEX' = (API_KEY_INDEX + 1) % NumKeys
                   /\ UNCHANGED <<API_KEY_LAST_USED, clock>>
    /\ UNCHANGED <<limited_at, lockVars>>
    /\ KeyFrame

\* the provider call made with the selected key: get_gemini_metadata stamps
\* the key once more in wait_for_api_key_cooldown; the provider answers with
\* metadata or with 429
UseKey(c) ==
    /\ holder[c] # 0
    /\ \E answer \in {"ok", "429"} :
          limited_at' = IF answer = "429"
                        THEN [limited_at EXCEPT ![holder[c]] = clock]
                        ELSE limited_at
    /\ API_KEY_LAST_USED' =
          IF provider_name = "Gemini"
          THEN [API_KEY_LAST_USED EXCEPT ![holder[c]] = clock]
          ELSE API_KEY_LAST_USED
    /\ clock' = clock + 1
    /\ holder' = [holder EXCEPT ![c] = 0]
    /\ UNCHANGED <<API_KEY_INDEX, selections, parked_returned, lockVars>>
    /\ KeyFrame

NextKeyRotation == \E c \in Callers : SelectKey(c) \/ UseKey(c)

SpecKeyRotation == InitKeyRotation /\ [][NextKeyRotation]_vars

\* ---- the key a submitted job uses ----
\* The orchestrator hands every job one key of the list, by its own index, and
\* the job selects its key from that one-key list. A batch holds as many jobs
\* as the pool has threads; call_args[c] is the position of the job run by
\* pool thread c and holder[c] the key it was given.

InitJobKeys ==
    /\ provider_name \in Providers
    /\ auto_retry_enabled = TRUE
    /\ api_key_valid = TRUE
    /\ num_workers = 1
    /\ out_exists = [f \in Files |-> FALSE]
    /\ InitRun
    /\ arg_pc = "idle"
    /\ arg_status = "none"
    /\ arg_attempt = 0
    /\ arg_result = FALSE
    /\ call_args = [c \in Callers |-> "idle"]
    /\ call_result = "none"
    /\ InitKeys

JobFrame ==
    UNCHANGED <<cfgVars, sigVars, uiVars, fsVars, pc, countVars,
                files_to_process, total_files, batch_index, failed_files,
                processed_files, futures, current_batch, batch_futures,
                consumed, retryVars, workerVars, arg_pc, arg_status,
                arg_attempt, arg_result, call_result, limited_at,
                parked_returned, lockVars, histVars>>

\* batch_process_files: assigned_api_key = api_keys[current_api_key_index %
\* len(api_keys)], the index advances, the job is submitted with
\* [assigned_api_key]
AssignKey(c) ==
    /\ c = sub_i
    /\ call_args[c] = "idle"
    /\ Len(selections) + Cardinality({d \in Callers : call_args[d] = "submitted"})
          < MaxSelections
    /\ holder' = [holder EXCEPT ![c] = (current_api_key_index % NumKeys) + 1]
    /\ current_api_key_index' = (current_api_key_index + 1) % NumKeys
    /\ call_args' = [call_args EXCEPT ![c] = "submitted"]
    /\ sub_i' = sub_i + 1
    /\ UNCHANGED <<API_KEY_LAST_USED, API_KEY_INDEX, clock, selections>>
    /\ JobFrame

\* select_smart_api_key over a list of one key: that key, stamped with now
select_smart_api_key_of(key) == [API_KEY_LAST_USED EXCEPT ![key] = clock]

\* process_single_file: provider_manager.select_api_key(provider_name,
\* [assigned_api_key]); the other providers index the one-key list with
\* _API_KEY_INDEX % 1
SelectAssigned(c) ==
    /\ call_args[c] = "submitted"
    /\ call_args' = [call_args EXCEPT ![c] = "selected"]
    /\ selections' = Append(selections, holder[c])
    /\ IF provider_name = "Gemini"
       THEN /\ API_KEY_LAST_USED' = select_smart_api_key_of(holder[c])
            /\ clock' = clock + 1
            /\ UNCHANGED API_KEY_INDEX
       ELSE /\ API_KEY_INDEX' = (API_KEY_INDEX + 1) % 1
            /\ UNCHANGED <<API_KEY_LAST_USED, clock>>
    /\ UNCHANGED <<holder, current_api_key_index, sub_i>>
    /\ JobFrame

\* the provider call of the job: get_gemini_metadata stamps the key again when
\* wait_for_api_key_cooldown ends; then the job returns
JobCall(c) ==
    /\ call_args[c] = "selected"
    /\ call_args' = [call_args EXCEPT ![c] = "returned"]
    /\ IF provider_name = "Gemini"
       THEN /\ API_KEY_LAST_USED' = [API_KEY_LAST_USED EXCEPT ![holder[c]] = clock]
            /\ clock' = clock + 1
       ELSE UNCHANGED <<API_KEY_LAST_USED, clock>>
    /\ UNCHANGED <<holder, current_api_key_index, sub_i, API_KEY_INDEX,
                   selections>>
    /\ JobFrame

\* every future of the batch has been classified: the next batch begins
NextJobBatch ==
    /\ sub_i = NumCallers + 1
    /\ \A c \in Callers : call_args[c] = "returned"
    /\ sub_i' = 1
    /\ call_args' = [c \in Callers |-> "idle"]
    /\ holder' = [c \in Callers |-> 0]
    /\ UNCHANGED <<current_api_key_index, API_KEY_LAST_USED, API_KEY_INDEX,
                   clock, selections>>
    /\ JobFrame

NextJobKeys ==
    \/ \E c \in Callers : AssignKey(c) \/ SelectAssigned(c) \/ JobCall(c)
    \/ NextJobBatch

SpecJobKeys == InitJobKeys /\ [][NextJobKeys]_vars

\* ---- rename by title: the jobs of one batch in one output directory ----
\* Every file of the batch has a pipeline that succeeds unless it skips. A
\* path is <<base, n>>: base f is the name of input f, base 0 a title that no
\* input is named after, and n > 0 the suffix " (n)". call_args[f] is the
\* title the provider returned for f, NoTitle when there is nothing to rename
\* by.

NoTitle == 0 - 1
Titles == {NoTitle} \cup (0..NumFiles)

\* os.path.exists(path) in the output directory
PathExists(dir, path) == \E e \in dir : e.path = path

\* writing the content of input f to path replaces what the path held
PutFile(dir, path, f) ==
    {e \in dir : e.path # path} \cup {[path |-> path, of |-> f]}

\* initial_output_path = os.path.join(output_dir, filename)
initial_output_path(f) == <<f, 0>>

\* the while loop of the rename: the first of "title", "title (1)", ... that
\* does not exist
FreePath(dir, base) ==
    LET n == CHOOSE n \in 0..(NumFiles + 1) :
                 /\ ~PathExists(dir, <<base, n>>)
                 /\ \A k \in 0..(n - 1) : PathExists(dir, <<base, k>>)
    IN  <<base, n>>

\* shutil.move(src, dst): what src holds goes to dst, replacing what dst held
MoveFile(dir, src, dst) ==
    LET held == CHOOSE e \in dir : e.path = src
    IN  {e \in dir : e.path \notin {src, dst}} \cup {[path |-> dst, of |-> held.of]}

InitRename ==
    /\ provider_name = "Gemini"
    /\ auto_retry_enabled = FALSE
    /\ api_key_valid = TRUE
    /\ num_workers = NumFiles
    /\ out_exists = [f \in Files |-> FALSE]
    /\ InitRun
    /\ arg_pc = "idle"
    /\ arg_status = "none"
    /\ arg_attempt = 0
    /\ arg_result = FALSE
    /\ call_args \in [Files -> Titles]
    /\ call_result = "none"
    /\ InitKeys

RenameFrame ==
    UNCHANGED <<cfgVars, sigVars, uiVars, out_exists, pc, passVars, retryVars,
                wsaw, argVars, histVars>>

\* the pipeline begins: skipped_exists when the output path of the file exists
R_Start(f) ==
    /\ wpc[f] = "idle"
    /\ IF PathExists(out_dir, initial_output_path(f))
       THEN /\ wpc' = [wpc EXCEPT ![f] = "finished"]
            /\ wstatus' = [wstatus EXCEPT ![f] = "skipped_exists"]
       ELSE /\ wpc' = [wpc EXCEPT ![f] = "copy"]
            /\ wstatus' = wstatus
    /\ UNCHANGED <<in_exists, renameVars, countVars>>
    /\ RenameFrame

\* shutil.copy2(input_path, initial_output_path) and the embedding
R_Copy(f) ==
    /\ wpc[f] = "copy"
    /\ out_dir' = PutFile(out_dir, initial_output_path(f), f)
    /\ wpc' = [wpc EXCEPT ![f] = "probe"]
    /\ wstatus' = [wstatus EXCEPT ![f] = "processed_exif"]
    /\ UNCHANGED <<in_exists, new_path, countVars>>
    /\ RenameFrame

\* process_single_file: the name to rename to, when there is a title and the
\* title is not the name the file has
R_Probe(f) ==
    /\ wpc[f] = "probe"
    /\ IF call_args[f] = NoTitle \/ <<call_args[f], 0>> = initial_output_path(f)
       THEN /\ wpc' = [wpc EXCEPT ![f] = "remove"]
            /\ new_path' = new_path
       ELSE /\ wpc' = [wpc EXCEPT ![f] = "move"]
            /\ new_path' = [new_path EXCEPT ![f] = FreePath(out_dir, call_args[f])]
    /\ UNCHANGED <<in_exists, out_dir, wstatus, countVars>>
    /\ RenameFrame

\* shutil.move(initial_output_path, new_path); an exception (the source is
\* gone) leaves the directory as it is
R_Move(f) ==
    /\ wpc[f] = "move"
    /\ out_dir' = IF PathExists(out_dir, initial_output_path(f))
                  THEN MoveFile(out_dir, initial_output_path(f), new_path[f])
                  ELSE out_dir
    /\ wpc' = [wpc EXCEPT ![f] = "remove"]
    /\ UNCHANGED <<in_exists, new_path, wstatus, countVars>>
    /\ RenameFrame

\* os.remove(input_path) after a success status, and the result dict
R_Remove(f) ==
    /\ wpc[f] = "remove"
    /\ in_exists' = [in_exists EXCEPT ![f] = FALSE]
    /\ wpc' = [wpc EXCEPT ![f] = "finished"]
    /\ UNCHANGED <<renameVars, wstatus, countVars>>
    /\ RenameFrame

\* as_completed yields the future of f: the result is counted
R_Classify(f) ==
    /\ wpc[f] = "finished"
    /\ completed_count' = completed_count + 1
    /\ progress' = completed_count'
    /\ IF wstatus[f] = "skipped_exists"
       THEN /\ skipped_count' = skipped_count + 1
            /\ UNCHANGED processed_count
       ELSE /\ processed_count' = processed_count + 1
            /\ UNCHANGED skipped_count
    /\ wpc' = [wpc EXCEPT ![f] = "classified"]
    /\ UNCHANGED <<in_exists, renameVars, wstatus, failed_count, stopped_count>>
    /\ RenameFrame

NextRename ==
    \E f \in Files :
        \/ R_Start(f) \/ R_Copy(f) \/ R_Probe(f) \/ R_Move(f) \/ R_Remove(f)
        \/ R_Classify(f)

SpecRename == InitRename /\ [][NextRename]_vars

\* the counts of the batch when its jobs run one after the other in the order
\* of submission: (processed, skipped) from file i on, with dir the output
\* directory so far
RECURSIVE OneByOne(_, _)
OneByOne(i, dir) ==
    IF i > NumFiles THEN <<0, 0>>
    ELSE IF PathExists(dir, initial_output_path(i))
    THEN LET rest == OneByOne(i + 1, dir) IN <<rest[1], rest[2] + 1>>
    ELSE LET copied == PutFile(dir, initial_output_path(i), i)
             after == IF call_args[i] = NoTitle
                         \/ <<call_args[i], 0>> = initial_output_path(i)
                      THEN copied
                      ELSE MoveFile(copied, initial_output_path(i),
                                    FreePath(copied, call_args[i]))
             rest == OneByOne(i + 1, after)
         IN  <<rest[1] + 1, rest[2]>>

\* ---- the waits of a run: the cool-down between batches, the backoff of a
\* provider module between its attempts ----
\* clock counts tenths of a second since the wait began; call_args is the
\* wait, call_result how it ended.

BackoffModules == {"openai", "groq", "koboillm", "blackbox"}

WaitArgs ==
    {[kind |-> "batch", seconds |-> d] : d \in 1..MaxDelay}
    \cup {[kind |-> m, seconds |-> RETRY_DELAY_SECONDS * attempt] :
             m \in BackoffModules, attempt \in 1..API_MAX_RETRIES}

\* the length of one time.sleep of the wait, in tenths of a second:
\* time.sleep(0.1) inside a polling loop, time.sleep(RETRY_DELAY_SECONDS *
\* attempt) in the Blackbox module
sleep_ticks(w) ==
    IF w.kind = "blackbox" THEN w.seconds * POLLS_PER_SECOND ELSE 1

InitWait ==
    /\ provider_name = "OpenAI"
    /\ auto_retry_enabled = FALSE
    /\ api_key_valid = TRUE
    /\ num_workers = 1
    /\ out_exists = [f \in Files |-> FALSE]
    /\ InitRun
    /\ arg_pc = "poll"
    /\ arg_status = "none"
    /\ arg_attempt = 0
    /\ arg_result = FALSE
    /\ call_args \in WaitArgs
    /\ call_result = "none"
    /\ API_KEY_LAST_USED = [k \in Keys |-> 0]
    /\ API_KEY_INDEX = 0
    /\ clock = 0
    /\ holder = [c \in Callers |-> 0]
    /\ selections = <<>>
    /\ limited_at = [k \in Keys |-> 0]
    /\ parked_returned = FALSE
    /\ API_KEY_LOCK = 0
    /\ last_used = [c \in Callers |-> 0]
    /\ requests = <<>>

\* the stop check before a sleep: on the signal the wait ends with "stopped";
\* when the time is over the wait ends and the next attempt (or batch) begins;
\* else the thread sleeps
WaitPoll ==
    /\ arg_pc = "poll"
    /\ IF should_stop
       THEN arg_pc' = "returned" /\ call_result' = "stopped"
       ELSE IF clock >= call_args.seconds * POLLS_PER_SECOND
       THEN arg_pc' = "returned" /\ call_result' = "continue"
       ELSE arg_pc' = "sleep" /\ call_result' = call_result
    /\ UNCHANGED <<cfgVars, sigVars, uiVars, fsVars, pc, countVars, passVars,
                   retryVars, workerVars, arg_status, arg_attempt, arg_result,
                   call_args, keyVars, histVars>>

\* time.sleep returns
WaitWake ==
    /\ arg_pc = "sleep"
    /\ clock' = clock + sleep_ticks(call_args)
    /\ arg_pc' = "poll"
    /\ UNCHANGED <<cfgVars, sigVars, uiVars, fsVars, pc, countVars, passVars,
                   retryVars, workerVars, arg_status, arg_attempt, arg_result,
                   call_args, call_result, API_KEY_LAST_USED, API_KEY_INDEX,
                   holder, selections, limited_at, parked_returned, lockVars,
                   histVars>>

NextWait == WaitPoll \/ WaitWake \/ (StopProcessing /\ arg_pc # "returned")

SpecWait == InitWait /\ [][NextWait]_vars

\* ---- the spacing of the provider requests of one key (Gemini) ----
\* Worker threads that were each handed a key: the thread selects it, waits
\* in wait_for_api_key_cooldown and starts its request. clock is time.time()
\* in seconds; call_args[c] is the position of thread c.

InitCooldown ==
    /\ provider_name = "Gemini"
    /\ auto_retry_enabled = TRUE
    /\ api_key_valid = TRUE
    /\ num_workers = 1
    /\ out_exists = [f \in Files |-> FALSE]
    /\ InitRun
    /\ arg_pc = "idle"
    /\ arg_status = "none"
    /\ arg_attempt = 0
    /\ arg_result = FALSE
    /\ call_args = [c \in Callers |-> "idle"]
    /\ call_result = "none"
    /\ API_KEY_LAST_USED = [k \in Keys |-> 0]
    /\ API_KEY_INDEX = 0
    /\ clock = 1
    /\ holder \in [Callers -> Keys]
    /\ selections = <<>>
    /\ limited_at = [k \in Keys |-> 0]
    /\ parked_returned = FALSE
    /\ API_KEY_LOCK = 0
    /\ last_used = [c \in Callers |-> 0]
    /\ requests = <<>>

CooldownFrame ==
    UNCHANGED <<cfgVars, sigVars, uiVars, fsVars, pc, countVars, passVars,
                retryVars, workerVars, arg_pc, arg_status, arg_attempt,
                arg_result, call_result, API_KEY_INDEX, holder, selections,
                limited_at, parked_returned, histVars>>

\* select_smart_api_key: with API_KEY_LOCK
LockKeys(c) ==
    /\ call_args[c] = "idle"
    /\ Len(requests) + Cardinality({d \in Callers : call_args[d] # "idle"})
          < MaxRequests
    /\ API_KEY_LOCK = 0
    /\ API_KEY_LOCK' = c
    /\ call_args' = [call_args EXCEPT ![c] = "locked"]
    /\ UNCHANGED <<API_KEY_LAST_USED, clock, last_used, requests>>
    /\ CooldownFrame

\* select_smart_api_key on the thread's one-key list: the key is stamped with
\* now and the lock is released on return
StampSelected(c) ==
    /\ call_args[c] = "locked"
    /\ API_KEY_LOCK = c
    /\ API_KEY_LAST_USED' = select_smart_api_key_of(holder[c])
    /\ API_KEY_LOCK' = 0
    /\ call_args' = [call_args EXCEPT ![c] = "selected"]
    /\ UNCHANGED <<clock, last_used, requests>>
    /\ CooldownFrame

\* wait_for_api_key_cooldown: last_used = API_KEY_LAST_USED.get(api_key, 0),
\* read once, before the loop
CooldownRead(c) ==
    /\ call_args[c] = "selected"
    /\ ~gemini_check_stop
    /\ last_used' = [last_used EXCEPT ![c] = API_KEY_LAST_USED[holder[c]]]
    /\ call_args' = [call_args EXCEPT ![c] = "waiting"]
    /\ UNCHANGED <<API_KEY_LAST_USED, API_KEY_LOCK, clock, requests>>
    /\ CooldownFrame

\* remaining = last_used + API_KEY_MIN_INTERVAL - now
remaining(c) == last_used[c] + API_KEY_MIN_INTERVAL - clock

\* wait_for_api_key_cooldown leaves its loop when remaining <= 0 and writes
\* API_KEY_LAST_USED[api_key] = time.time(); get_gemini_metadata then sends
\* the request, and the thread takes its next job when it has returned
CooldownEnd(c) ==
    /\ call_args[c] = "waiting"
    /\ ~gemini_check_stop
    /\ remaining(c) <= 0
    /\ API_KEY_LAST_USED' = [API_KEY_LAST_USED EXCEPT ![holder[c]] = clock]
    /\ requests' = Append(requests, [key |-> holder[c], at |-> clock])
    /\ call_args' = [call_args EXCEPT ![c] = "idle"]
    /\ UNCHANGED <<API_KEY_LOCK, clock, last_used>>
    /\ CooldownFrame

\* a second passes
Tick ==
    /\ clock < MaxClock
    /\ clock' = clock + 1
    /\ UNCHANGED <<API_KEY_LAST_USED, API_KEY_LOCK, last_used, requests,
                   call_args>>
    /\ CooldownFrame

NextCooldown ==
    \/ \E c \in Callers :
          LockKeys(c) \/ StampSelected(c) \/ CooldownRead(c) \/ CooldownEnd(c)
    \/ Tick

SpecCooldown == InitCooldown /\ [][NextCooldown]_vars

\* ---- the tags of the metadata a provider module returns ----

\* the keywords of a model answer, as written in its JSON
RawItems == {"a", "a ", "b", "c", ""}

\* str(item).strip()
Strip(x) == IF x = "a " THEN "a" ELSE x

\* [str(kw).strip() for kw in keywords if str(kw).strip()]
RECURSIVE Cleaned(_)
Cleaned(seq) ==
    IF seq = <<>> THEN <<>>
    ELSE IF Strip(Head(seq)) = "" THEN Cleaned(Tail(seq))
    ELSE <<Strip(Head(seq))>> \o Cleaned(Tail(seq))

\* list(dict.fromkeys(tags)): the first occurrence of every tag, in order
RECURSIVE Dedupe(_)
Dedupe(seq) ==
    IF seq = <<>> THEN <<>>
    ELSE LET front == Dedupe(SubSeq(seq, 1, Len(seq) - 1))
             x == seq[Len(seq)]
         IN  IF x \in SeqToSet(front) THEN front ELSE Append(front, x)

\* tags[:n]
Take(seq, n) == SubSeq(seq, 1, IF n < Len(seq) THEN n ELSE Len(seq))

\* the largest number of keywords a provider module keeps
KEYWORD_CAP == 60
DEFAULT_KEYWORDS == 49
INVALID_KEYWORDS == 10

\* _normalize_keyword_count of openai_api and groq_api
normalize_keyword_count(v) ==
    IF v <= 0 THEN INVALID_KEYWORDS ELSE IF v < KEYWORD_CAP THEN v ELSE KEYWORD_CAP

\* max_kw of gemini_api._extract_metadata_from_text, and of the CSV export
max_kw(v) == IF v < 1 THEN DEFAULT_KEYWORDS ELSE v

\* the cap each provider module applies for the caller's keyword_count
keyword_limit(module, v) ==
    CASE module = "gemini" -> max_kw(v)
      [] module \in {"openai", "groq"} -> normalize_keyword_count(v)
      [] module = "koboillm" -> KEYWORD_CAP

\* metadata["tags"] of _extract_metadata_from_text / _extract_metadata_from_json
extract_tags(module, keywords, v) ==
    Take(Dedupe(Cleaned(keywords)), keyword_limit(module, v))

\* the keywords write_to_platform_csvs_safe writes for tags and keyword_count
csv_keywords(tags, v) == Take(Dedupe(Cleaned(tags)), max_kw(v))

RECURSIVE SeqsUpTo(_)
SeqsUpTo(n) ==
    IF n = 0 THEN {<<>>}
    ELSE LET shorter == SeqsUpTo(n - 1)
         IN  shorter \cup {Append(q, x) : q \in shorter, x \in RawItems}

ProviderModules == {"gemini", "openai", "groq", "koboillm"}

InitTags ==
    /\ provider_name = "Gemini"
    /\ auto_retry_enabled = TRUE
    /\ api_key_valid = TRUE
    /\ num_workers = 1
    /\ out_exists = [f \in Files |-> FALSE]
    /\ InitRun
    /\ arg_pc = "call"
    /\ arg_status = "none"
    /\ arg_attempt = 0
    /\ arg_result = FALSE
    /\ call_args \in [module : ProviderModules, keywords : SeqsUpTo(MaxRaw),
                      keyword_count : 1..MaxLimit]
    /\ call_result = "none"
    /\ InitKeys

\* the provider module builds the tags of the metadata it returns
CallExtractTags ==
    /\ arg_pc = "call"
    /\ call_result' = extract_tags(call_args.module, call_args.keywords,
                                   call_args.keyword_count)
    /\ arg_pc' = "returned"
    /\ UNCHANGED <<cfgVars, sigVars, uiVars, fsVars, pc, countVars, passVars,
                   retryVars, workerVars, arg_status, arg_attempt, arg_result,
                   call_args, keyVars, histVars>>

SpecTags == InitTags /\ [][CallExtractTags]_vars

(* ---------------------------------------------------------------- claims *)
\* the sum of the four counters of the result
Sum == processed_count + failed_count + skipped_count + stopped_count

\* the max_attempts the specification gives for the retryable failures
ClaimedMaxAttempts ==
    [failed_api |-> 5, failed_copy |-> 3, failed_conversion |-> 3,
     failed_frames |-> 3, failed_worker |-> 2, failed_timeout |-> 2,
     failed_exception |-> 2]

\* the closed vocabulary of statuses of the specification
Vocabulary ==
    ProcessedStatuses \cup {"skipped_exists", "stopped"}
        \cup DOMAIN ClaimedMaxAttempts \cup NON_RETRYABLE_STATUSES

\* the run used auto retry, saw no stop request and lost no input file, and
\* every invocation of the pipeline for f has returned the retryable status s
AlwaysFails(f, s) ==
    /\ auto_retry_enabled
    /\ ~cancel_raised
    /\ vanished = 0
    /\ Returned
    /\ s \in DOMAIN ClaimedMaxAttempts
    /\ same_ret[f] = s

\* C1: after enumeration processed + failed + skipped + stopped never exceeds
\* total_files, and a run that returns without any cancellation has the sum
\* equal to total_files.
C1_Conservation ==
    /\ pc \notin {"start", "enumerate"} => Sum <= total_files
    /\ (Returned /\ ~cancel_raised) => Sum = total_files

\* C2: is_retryable(status, n) is true exactly when status is a key of the
\* retry table and n is below its max_attempts (failed_api 5; failed_copy,
\* failed_conversion, failed_frames 3; failed_worker, failed_timeout,
\* failed_exception 2), and false for every status outside the table.
C2_IsRetryableTable ==
    arg_pc = "returned" =>
        /\ arg_status \in DOMAIN ClaimedMaxAttempts
              => arg_result = (arg_attempt < ClaimedMaxAttempts[arg_status])
        /\ arg_status \in DOMAIN RETRYABLE_STATUSES
              => arg_result = (arg_attempt < RETRYABLE_STATUSES[arg_status])
        /\ arg_status \notin DOMAIN RETRYABLE_STATUSES => arg_result = FALSE

\* C2 witness: is_retryable has returned false for failed_api at attempt 5,
\* the max_attempts of failed_api.
C2_Witness ==
    /\ arg_pc = "returned"
    /\ arg_status = "failed_api"
    /\ arg_attempt = 5
    /\ arg_result = FALSE

\* C3: with auto retry and no cancellation, a file whose pipeline returns the
\* same retryable status s on every invocation is resubmitted in at most
\* max_attempts[s] retry rounds and is in the failed files of the result.
C3_RetryConverges ==
    \A f \in Files : \A s \in DOMAIN ClaimedMaxAttempts :
        AlwaysFails(f, s) =>
            /\ submits[f] - 1 <= ClaimedMaxAttempts[s]
            /\ failed_count >= 1
            /\ \E i \in 1..Len(failed_files) : failed_files[i].fp = f

\* C4: with auto retry and no cancellation, a file that always fails with the
\* retryable status s is submitted exactly max_attempts[s] times (5 times for
\* failed_api).
C4_ExactAttempts ==
    \A f \in Files : \A s \in DOMAIN ClaimedMaxAttempts :
        AlwaysFails(f, s) => submits[f] = ClaimedMaxAttempts[s]

\* C5: when cancellation is observed in the middle of a run, the returned
\* result has processed + failed + skipped + stopped = total_files.
C5_CancelledSum ==
    (Returned /\ cancel_seen /\ total_files > 0) => Sum = total_files

\* C6: once the cancellation signal has been raised during a run,
\* batch_process_files submits no further job, in the initial pass or in the
\* auto retry.
C6_NoSubmitAfterCancel == ~submitted_after_cancel

\* C7: after cancellation has been raised batch_process_files can go on to
\* its return without any in-flight worker completing: whenever every
\* unfinished job is inside the provider call (and a result timeout of the
\* retry loop is still within MaxTimeouts), the orchestrator has a step.
C7_ReturnsThoughWorkerHangs ==
    ( /\ cancel_raised
      /\ ~Returned
      /\ timeouts < MaxTimeouts
      /\ \A f \in Files : wpc[f] \in {"idle", "api", "finished", "cancelled"} )
        => ENABLED Orchestrator

\* C8: a pipeline that starts for a file whose output path exists returns
\* skipped_exists and leaves the input and the output as they are.
C8_SkipExisting ==
    [][\A f \in Files :
          ( /\ wpc[f] = "queued"
            /\ wpc'[f] \notin {"queued", "cancelled"}
            /\ ~should_stop
            /\ in_exists[f]
            /\ out_exists[f] )
             => (wstatus'[f] = "skipped_exists" /\ UNCHANGED fsVars)]_vars

\* C9: the status returned for a file whose processing observed the
\* cancellation signal is stopped.
C9_CancellationWins ==
    \A f \in Files : (wpc[f] = "finished" /\ wsaw[f]) => wstatus[f] = "stopped"

\* C10: every status the orchestrator classifies as a failure is one of the
\* failure statuses of the closed vocabulary.
C10_ClosedVocabulary ==
    \A i \in 1..Len(failed_files) : failed_files[i].st \in Vocabulary

\* C11: in each of the image, vector and video pipelines, a provider result
\* of "stopped" yields the status stopped, a provider error yields
\* failed_api, an exception in the copy to the output yields failed_copy, a
\* failed vector conversion yields failed_conversion, and a frame extraction
\* that yields no frame yields failed_frames.
C11_FailureMapping ==
    arg_pc = "returned" =>
        LET p == call_args
            r == call_result
        IN  /\ ("api" \in r.called /\ p.provider = "stopped")
                   => r.status = "stopped"
            /\ ("api" \in r.called /\ p.provider = "error")
                   => r.status = "failed_api"
            /\ ("copy" \in r.called /\ p.copy = "raise")
                   => r.status = "failed_copy"
            /\ ("convert" \in r.called /\ p.kind = "vector" /\ p.conv = "fail")
                   => r.status = "failed_conversion"
            /\ ("frames" \in r.called /\ p.kind = "video" /\ p.frames = "none")
                   => r.status = "failed_frames"

\* C11 witness: a video pipeline returned failed_api for a provider error
C11_Witness ==
    /\ arg_pc = "returned"
    /\ call_args.kind = "video"
    /\ call_args.provider = "error"
    /\ "api" \in call_result.called
    /\ call_result.status = "failed_api"

\* C12: a file that existed at enumeration but is gone when it is first
\* dispatched ends classified failed_input_missing: at a return without
\* cancellation it is in the failed list with that status and is counted in
\* failed_count, and no second submission of it was made.
C12_InputMissing ==
    (Returned /\ ~cancel_raised) =>
        \A f \in Files :
            (/\ ~in_exists[f]
             /\ \/ submits[f] = 0
                \/ same_ret[f] = "failed_input_missing")
                => /\ \E i \in 1..Len(failed_files) :
                          /\ failed_files[i].fp = f
                          /\ failed_files[i].st = "failed_input_missing"
                   /\ failed_count >= 1
                   /\ submits[f] = 1

\* C13: a provider call that fails with an authentication error (401 or 403)
\* is retried at no level: the batch retry loop never submits a second time
\* a file whose pipeline returned failed_api for keys the provider rejects.
C13_AuthNotRetried ==
    \A f \in Files :
        (~api_key_valid /\ same_ret[f] = "failed_api") => submits[f] <= 1

\* C14: with no key parked, any NumKeys consecutive key selections return
\* each key of the list exactly once, also when the selections are made by
\* concurrent callers.
C14_FairRotation ==
    (\A k \in Keys : limited_at[k] = 0) =>
        \A i \in 1..(Len(selections) - NumKeys + 1) :
            {selections[j] : j \in i..(i + NumKeys - 1)} = Keys

\* C15: a key that answered 429 at time T is not returned by the selection
\* before T + ParkWindow while another key that is not parked exists.
C15_ParkedKeyNotReturned == ~parked_returned

\* C16: the status after the EXIF embedding is determined by the pair
\* (proceed, status) the embedding returned: proceed = false always yields a
\* failure status, and proceed = true always yields one of the four success
\* statuses, whatever the embed status.
C16_EmbedMapping ==
    (arg_pc = "returned" /\ "exif" \in call_result.called) =>
        IF call_args.exif.proceed
        THEN call_result.status \in ProcessedStatuses
        ELSE call_result.status \notin ProcessedStatuses \cup {"skipped_exists"}

\* C17: the tags of the metadata a provider module returns contain no
\* duplicate, keep the order of first occurrence, and are at most as many as
\* the caller's keyword limit; applying the dedupe-and-cap of the CSV export
\* to them leaves the list unchanged.
C17_TagsNormalised ==
    arg_pc = "returned" =>
        LET tags == call_result
            all == Dedupe(Cleaned(call_args.keywords))
        IN  /\ \A i, j \in 1..Len(tags) : tags[i] = tags[j] => i = j
            /\ tags = SubSeq(all, 1, Len(tags))
            /\ Len(tags) <= call_args.keyword_count
            /\ csv_keywords(tags, call_args.keyword_count) = tags

\* C18: process_vector_file leaves no temporary raster behind on any exit
\* path, whether it returns or raises.
C18_NoTempRaster ==
    (arg_pc = "returned" /\ call_args.kind = "vector") => ~call_result.temp_left

C21_JobKeyLeastRecentlyUsed ==
    [][\A c \in Callers :
          (call_args[c] = "submitted" /\ call_args'[c] = "selected") =>
              \A k \in Keys :
                  (\A d \in Callers : call_args[d] \in {"submitted", "selected"}
                                          => holder[d] # k)
                      => API_KEY_LAST_USED[holder[c]] <= API_KEY_LAST_USED[k]]_vars

\* C22: for the provider Gemini, between the starts of any two provider
\* requests issued with the same API key at least API_KEY_MIN_INTERVAL seconds
\* elapse, whatever the interleaving of the threads that hold the key.
C22_MinInterval ==
    \A i, j \in 1..Len(requests) :
        (i < j /\ requests[i].key = requests[j].key) =>
            requests[j].at - requests[i].at >= API_KEY_MIN_INTERVAL

\* C23: every write of the timestamp map API_KEY_LAST_USED is made by a
\* thread that holds API_KEY_LOCK.
C23_WritesUnderLock ==
    [][API_KEY_LAST_USED' # API_KEY_LAST_USED => API_KEY_LOCK # 0]_vars

\* C24: batches are strictly sequential. The orchestrator goes from the
\* results of a batch to the next batch only when every future of the batch
\* has been classified; the submit loop of a batch is entered from the head of
\* the loop for the first slice of a pass and from the cool-down for every
\* later slice; and never more than num_workers pipelines are executing.
C24_SequentialBatches ==
    [][/\ (pc = "post_batch" /\ pc' = "loop")
              => consumed = SeqToSet(batch_futures)
       /\ (pc = "retry_post_batch" /\ pc' = "retry_loop")
              => await_i > Len(batch_futures)
       /\ (pc # "submit" /\ pc' = "submit")
              => pc = (IF batch_index = 0 THEN "loop" ELSE "cooldown")
       /\ (pc # "retry_submit" /\ pc' = "retry_submit")
              => pc = (IF retry_batch_index = 0 THEN "retry_loop"
                       ELSE "retry_cooldown")
       /\ Cardinality({f \in Files :
                          wpc'[f] \notin {"idle", "queued", "finished",
                                          "cancelled"}}) <= num_workers]_vars

\* C25: in a run without cancellation the final counts do not depend on the
\* order in which the concurrent jobs of a batch complete, rename by title
\* included: when every result is counted, processed and skipped are what
\* they are when the jobs run one after the other in the order of submission.
C25_CountsOrderIndependent ==
    (\A f \in Files : wpc[f] = "classified") =>
        <<processed_count, skipped_count>> = OneByOne(1, {})

\* C27: no file's content is ever lost. After every step each file exists at
\* its input path or the output directory holds its content, and a job that
\* moves its output does not move it onto a path that holds the output of
\* another file.
C27_NoContentLost ==
    [][/\ \A f \in Files :
              in_exists'[f] \/ \E e \in out_dir' : e.of = f
       /\ \A f \in Files :
              (wpc[f] = "move" /\ wpc'[f] = "remove") =>
                  ~\E e \in out_dir : e.path = new_path[f] /\ e.of # f]_vars

\* C26: every wait of a run polls the cancellation signal about every 100 ms:
\* a sleep that ends after the stop request has lasted one polling interval
\* at most, and the check that follows it ends the wait with "stopped".
C26_WaitsPollTheSignal ==
    [][/\ (arg_pc = "sleep" /\ should_stop /\ arg_pc' = "poll")
              => clock' - clock <= 1
       /\ (arg_pc = "poll" /\ should_stop /\ arg_pc' # "poll")
              => call_result' = "stopped"]_vars

\* C28: the attempt counter of a file grows by one with every resubmission,
\* whatever the outcome of the retry, so that no file is submitted more often
\* than its counter allows: a file with an entry in failed_files has been
\* submitted at most once more than the attempt of the entry says, and at
\* most 5 times.
C28_AttemptsCountSubmissions ==
    \A i \in 1..Len(failed_files) :
        /\ submits[failed_files[i].fp] <= failed_files[i].att + 1
        /\ submits[failed_files[i].fp] <= 5

\* C29: at most one batch run is active at any time: while the processing
\* thread of a run is alive (batch_process_files has not returned) the
\* application cannot start a new run, also after a stop request whose timeout
\* handler has reset the window.
C29_OneRunAtATime == start_button_normal => Returned

\* C30: at normal completion (no cancellation) the counts are accurate per
\* file: processed_count is the number of files for which a pipeline
\* invocation returned a success status, and no such file is left among the
\* failed files, also when the result wait of a retry ran out and the worker
\* finished later.
C30_CountsPerFile ==
    (Returned /\ ~cancel_raised) =>
        LET succeeded == {f \in Files : wpc[f] = "finished"
                                          /\ wstatus[f] \in ProcessedStatuses}
        IN  /\ processed_count = Cardinality(succeeded)
            /\ \A i \in 1..Len(failed_files) : failed_files[i].fp \notin succeeded

====
